---- MODULE Spec2Model ----
(***************************************************************************)
(* A model of node-vpk: the BinaryParser byte cursor (BinaryParser.ts) and *)
(* the VPKFile directory reader (VPKFile.ts): fromFile, readFile and       *)
(* closeSubArchives.                                                       *)
(*                                                                         *)
(* Buffers are sequences of bytes 0..255.  The source indexes buffers from *)
(* 0, TLA+ sequences from 1: At(d, i) is the source's d[i].  Numbers are   *)
(* JavaScript doubles in the source, exact on every value a u32 read can   *)
(* produce; TLC's integers are 32-bit signed, so the inputs enumerated     *)
(* below keep every u32 they hold under 2^31.                              *)
(***************************************************************************)
EXTENDS Integers, Sequences, FiniteSets, TLC

VARIABLES
    pdata,      \* BinaryParser.data: the buffer the parser reads
    cursor,     \* BinaryParser.cursor
    last,       \* the last BinaryParser call: its arguments and its outcome
    iter,       \* the generator returned by asIterator(): "none", "fresh", "suspended", "done"
    desc,       \* the layout the directory file's bytes were written from
    input,      \* the bytes of the directory file handed to fromFile
    file,       \* the VPKFile object (NoFile until fromFile has returned one)
    outcome,    \* how the fromFile call ended: "pending", "ok" or the error
    fds,        \* the process's open file descriptors: fd -> the path it was opened on
    task,       \* the readFile calls: one record per call slot
    closer,     \* the closeSubArchives call in progress, if any
    hist,       \* what has happened so far: calls made, opens and cache writes per archive index
    frame       \* the fromFile call in progress, when it is followed call by call

vars == <<pdata, cursor, last, iter, desc, input, file, outcome, fds, task, closer, hist, frame>>

(***************************************************************************)
(* Bytes and buffers                                                       *)
(***************************************************************************)

\* d[i] of the source (0-based); only used where 0 <= i < d.length
At(d, i) == d[i + 1]

\* an offset of subarray brought into 0 .. length: a negative offset counts
\* from the end of the buffer
adjustOffset(offset, length) ==
    IF offset < 0 THEN (IF offset + length > 0 THEN offset + length ELSE 0)
    ELSE IF offset < length THEN offset ELSE length

\* d.subarray(s, e): the bytes s .. e-1 once both offsets are adjusted; empty
\* when the end is not past the start
subarray(d, s, e) ==
    LET ss == adjustOffset(s, Len(d))
        ee == adjustOffset(e, Len(d))
    IN  IF ee > ss THEN SubSeq(d, ss + 1, ee) ELSE <<>>

\* Buffer.readUInt32LE(offset): the value, once the range check has passed
LE32(d, o) == At(d, o) + 256 * At(d, o + 1) + 65536 * At(d, o + 2) + 16777216 * At(d, o + 3)

\* Buffer.readUInt16LE(offset): the value, once the range check has passed
LE16(d, o) == At(d, o) + 256 * At(d, o + 1)

\* Buffer.toString('ascii', s, e): each byte with its high bit cleared; a
\* negative s is 0, an e past the buffer end is the end; empty when s is at or
\* past the buffer end, when e <= 0 or when the span is empty
toAscii(d, s, e) ==
    LET ss == IF s < 0 THEN 0 ELSE s
        span == IF ss >= Len(d) \/ e <= 0 THEN <<>> ELSE subarray(d, ss, e)
    IN  [i \in 1..Len(span) |-> span[i] % 128]

(***************************************************************************)
(* BinaryParser.  Each operation is an operator of the buffer d and the    *)
(* cursor c, giving the cursor after the call and the call's outcome.      *)
(***************************************************************************)

Returned(c, v) == [cursor |-> c, ok |-> TRUE, err |-> "none", value |-> v]
Thrown(c, e) == [cursor |-> c, ok |-> FALSE, err |-> e, value |-> <<>>]

\* readUInt32LE(): the cursor moves before the buffer's range check
readUInt32LE(d, c) ==
    IF c >= 0 /\ c + 4 <= Len(d) THEN Returned(c + 4, LE32(d, c))
    ELSE Thrown(c + 4, "OutOfBounds")

\* readUInt32LE(offset): the cursor is not touched
readUInt32LEAt(d, c, offset) ==
    IF offset >= 0 /\ offset + 4 <= Len(d) THEN Returned(c, LE32(d, offset))
    ELSE Thrown(c, "OutOfBounds")

readUInt16LE(d, c) ==
    IF c >= 0 /\ c + 2 <= Len(d) THEN Returned(c + 2, LE16(d, c))
    ELSE Thrown(c + 2, "OutOfBounds")

\* the offset form sharing the cursor form's advance
readUInt16LEAtMoving(d, c, offset) ==
    IF offset >= 0 /\ offset + 2 <= Len(d) THEN Returned(offset + 2, LE16(d, offset))
    ELSE Thrown(offset + 2, "OutOfBounds")

\* readUInt16LE(offset): the cursor is not touched
readUInt16LEAt(d, c, offset) ==
    IF offset >= 0 /\ offset + 2 <= Len(d) THEN Returned(c, LE16(d, offset))
    ELSE Thrown(c, "OutOfBounds")

\* the scan of readString: the first index >= from that holds a zero byte,
\* or the buffer length (or from itself when it is already past the end)
RECURSIVE scanEnd(_, _)
scanEnd(d, end) ==
    IF end >= 0 /\ end < Len(d) /\ At(d, end) # 0 THEN scanEnd(d, end + 1) ELSE end

\* !data[end] as a number: 1 when data[end] is 0 or undefined (end outside the buffer)
notByte(d, end) == IF end >= 0 /\ end < Len(d) /\ At(d, end) # 0 THEN 0 ELSE 1

\* readString() that steps over a terminator only when it has found one
readStringStaying(d, c) ==
    LET end == scanEnd(d, c)
    IN  Returned(IF end >= 0 /\ end < Len(d) THEN end + 1 ELSE end, toAscii(d, c, end))

\* readString(): scan, then cursor = end + !data[end]
readString(d, c) ==
    LET end == scanEnd(d, c)
    IN  Returned(end + notByte(d, end), toAscii(d, c, end))

\* readString(offset): the cursor is not touched
readStringAt(d, c, offset) ==
    LET end == scanEnd(d, offset)
    IN  Returned(c, toAscii(d, offset, end))

\* readBytes without its assertion: the slice is cut at the buffer end
readBytesUnchecked(d, c, bytes) == Returned(c + bytes, subarray(d, c, c + bytes))

\* readBytes(bytes): the assertion comes before the cursor moves
readBytes(d, c, bytes) ==
    IF c + bytes <= Len(d) THEN Returned(c + bytes, subarray(d, c, c + bytes))
    ELSE Thrown(c, "InsufficientData")

Absolute == 0
Relative == 1

\* seek with the lower bound made inclusive
seekFromZero(d, c, offset, mode) ==
    IF mode = Absolute
    THEN IF offset >= 0 /\ offset <= Len(d) THEN Returned(offset, offset)
         ELSE Thrown(c, "InvalidOffset")
    ELSE LET res == c + offset
         IN  IF res >= 0 /\ res <= Len(d) THEN Returned(res, res)
             ELSE Thrown(c, "InvalidOffset")

\* seek(offset, mode)
seek(d, c, offset, mode) ==
    IF mode = Absolute
    THEN IF offset > 0 /\ offset <= Len(d) THEN Returned(offset, offset)
         ELSE Thrown(c, "InvalidOffset")
    ELSE LET res == c + offset
         IN  IF res > 0 /\ res <= Len(d) THEN Returned(res, res)
             ELSE Thrown(c, "InvalidOffset")

\* seek(): no offset, the cursor is returned
seekNone(d, c) == Returned(c, c)

reset(d, c) == Returned(0, 0)

eof(d, c) == Returned(c, c >= Len(d))

\* one next() on the generator of asIterator(): the loop's increment runs when
\* the generator is resumed after a yield, the test before every yield
asIteratorNext(d, c, st) ==
    LET c1 == IF st = "suspended" THEN c + 1 ELSE c
    IN  IF st = "done" THEN [cursor |-> c, st |-> "done", yielded |-> FALSE, value |-> 0]
        ELSE IF c1 < Len(d)
             THEN [cursor |-> c1, st |-> "suspended", yielded |-> TRUE, value |-> At(d, c1)]
             ELSE [cursor |-> c1, st |-> "done", yielded |-> FALSE, value |-> 0]

(***************************************************************************)
(* VPKFile.fromFile                                                        *)
(***************************************************************************)

\* 0x55aa1234
SIGNATURE == 1437209140
HEADER_SIZE_V1 == 3 * 4
HEADER_SIZE_V2 == 7 * 4
\* the archive index of an entry stored in the directory file itself (0x7fff)
SELF_ARCHIVE == 32767
\* the terminator of an entry record (0xffff)
ENTRY_TERMINATOR == 65535
\* the only accepted OtherMD5SectionSize
OTHER_MD5_SIZE == 48

Slash == 47
Dot == 46
Backslash == 92

\* a field the constructor leaves unset
Undefined == "undefined"

NoFile == [loaded |-> FALSE]

Failed(e, c) == [ok |-> FALSE, err |-> e, file |-> NoFile, cursor |-> c]

\* `${folder}/${fileName}.${extension}`
entryPath(folder, fileName, extension) ==
    folder \o <<Slash>> \o fileName \o <<Dot>> \o extension

\* entries.set(path, node)
mapSet(m, k, v) == [x \in DOMAIN m \cup {k} |-> IF x = k THEN v ELSE m[x]]

\* the terminator compared on its low byte only
entryTerminatorLowByte(t) == t % 256 = 255

\* assert(parser.readUInt16LE() == 0xffff, 'Bad entry terminator')
entryTerminatorOk(t) == t = ENTRY_TERMINATOR

\* the preload read whatever preloadBytes is
hasPreloadAlways(preloadBytes) == TRUE

\* if(preloadBytes): the record carries preload bytes
hasPreload(preloadBytes) == preloadBytes # 0

\* the record that follows a file name: six reads, the terminator's assertion,
\* and the preload bytes when preloadBytes is not 0
readEntry(d, c, extension, folder, fileName) ==
    LET rCRC == readUInt32LE(d, c)
        rPre == readUInt16LE(d, rCRC.cursor)
        rIdx == readUInt16LE(d, rPre.cursor)
        rOff == readUInt32LE(d, rIdx.cursor)
        rLen == readUInt32LE(d, rOff.cursor)
        rTerm == readUInt16LE(d, rLen.cursor)
        node == [path |-> entryPath(folder, fileName, extension),
                 extension |-> extension,
                 folder |-> folder,
                 fileName |-> fileName,
                 CRC |-> rCRC.value,
                 preloadBytes |-> rPre.value,
                 archiveIndex |-> rIdx.value,
                 entryOffset |-> rOff.value,
                 entryLength |-> rLen.value]
        rBytes == readBytes(d, rTerm.cursor, rPre.value)
    IN  IF ~rCRC.ok THEN [ok |-> FALSE, err |-> rCRC.err, cursor |-> rCRC.cursor]
        ELSE IF ~rPre.ok THEN [ok |-> FALSE, err |-> rPre.err, cursor |-> rPre.cursor]
        ELSE IF ~rIdx.ok THEN [ok |-> FALSE, err |-> rIdx.err, cursor |-> rIdx.cursor]
        ELSE IF ~rOff.ok THEN [ok |-> FALSE, err |-> rOff.err, cursor |-> rOff.cursor]
        ELSE IF ~rLen.ok THEN [ok |-> FALSE, err |-> rLen.err, cursor |-> rLen.cursor]
        ELSE IF ~rTerm.ok THEN [ok |-> FALSE, err |-> rTerm.err, cursor |-> rTerm.cursor]
        ELSE IF ~entryTerminatorOk(rTerm.value)
             THEN [ok |-> FALSE, err |-> "BadEntryTerminator", cursor |-> rTerm.cursor]
        ELSE IF hasPreload(rPre.value)
             THEN IF ~rBytes.ok
                  THEN [ok |-> FALSE, err |-> rBytes.err, cursor |-> rBytes.cursor]
                  ELSE [ok |-> TRUE, err |-> "none", cursor |-> rBytes.cursor,
                        node |-> node @@ [preload |-> rBytes.value]]
             ELSE [ok |-> TRUE, err |-> "none", cursor |-> rTerm.cursor, node |-> node]

\* the three nested loops of the tree: level 0 reads an extension, level 1 a
\* folder, level 2 a file name and its record; an empty string leaves the level
RECURSIVE parseTree(_, _, _, _, _, _)
parseTree(d, c, level, extension, folder, entries) ==
    LET s == readString(d, c)
    IN  IF s.value = <<>>
        THEN IF level = 0
             THEN [ok |-> TRUE, err |-> "none", entries |-> entries, cursor |-> s.cursor]
             ELSE parseTree(d, s.cursor, level - 1, extension, folder, entries)
        ELSE IF level = 0 THEN parseTree(d, s.cursor, 1, s.value, folder, entries)
        ELSE IF level = 1 THEN parseTree(d, s.cursor, 2, extension, s.value, entries)
        ELSE LET e == readEntry(d, s.cursor, extension, folder, s.value)
             IN  IF ~e.ok
                 THEN [ok |-> FALSE, err |-> e.err, entries |-> <<>>, cursor |-> e.cursor]
                 ELSE parseTree(d, e.cursor, 2, extension, folder,
                                mapSet(entries, e.node.path, e.node))

\* dataOffset with the version 1 header size for both versions
dataOffsetV1Only(version, treeSize) == HEADER_SIZE_V1 + treeSize

\* dataOffset: the header's size for the version, plus treeSize
dataOffset(version, treeSize) ==
    IF version = 2 THEN HEADER_SIZE_V2 + treeSize ELSE HEADER_SIZE_V1 + treeSize

\* the residual data taken from where the tree's terminator was expected to end
residualDataPastTerminator(d, offset) == subarray(d, offset + 1, Len(d))

\* file.data = data.subarray(dataOffset)
residualData(d, offset) == subarray(d, offset, Len(d))

\* the version 2 fields of the header; version 1 leaves them unset
readSections(d, c, version) ==
    LET rFile == readUInt32LE(d, c)
        rArch == readUInt32LE(d, rFile.cursor)
        rOther == readUInt32LE(d, rArch.cursor)
        rSig == readUInt32LE(d, rOther.cursor)
        unset == [fileDataSectionSize |-> Undefined, archiveMD5SectionSize |-> Undefined,
                  otherMD5SectionSize |-> Undefined, signatureSectionSize |-> Undefined]
    IN  IF version # 2 THEN [ok |-> TRUE, err |-> "none", cursor |-> c, sizes |-> unset]
        ELSE IF ~rFile.ok THEN [ok |-> FALSE, err |-> rFile.err, cursor |-> rFile.cursor]
        ELSE IF ~rArch.ok THEN [ok |-> FALSE, err |-> rArch.err, cursor |-> rArch.cursor]
        ELSE IF ~rOther.ok THEN [ok |-> FALSE, err |-> rOther.err, cursor |-> rOther.cursor]
        ELSE IF rOther.value # OTHER_MD5_SIZE
             THEN [ok |-> FALSE, err |-> "InvalidHeader", cursor |-> rOther.cursor]
        ELSE IF ~rSig.ok THEN [ok |-> FALSE, err |-> rSig.err, cursor |-> rSig.cursor]
        ELSE [ok |-> TRUE, err |-> "none", cursor |-> rSig.cursor,
              sizes |-> [fileDataSectionSize |-> rFile.value,
                         archiveMD5SectionSize |-> rArch.value,
                         otherMD5SectionSize |-> rOther.value,
                         signatureSectionSize |-> rSig.value]]

\* VPKFile.fromFile(path), d being the bytes readFile(path) gave: the VPKFile
\* object, or the error thrown (the object under construction is then dropped)
fromFile(path, d) ==
    LET rSig == readUInt32LE(d, 0)
        rVer == readUInt32LE(d, rSig.cursor)
        rTree == readUInt32LE(d, rVer.cursor)
        sec == readSections(d, rTree.cursor, rVer.value)
        tree == parseTree(d, sec.cursor, 0, <<>>, <<>>, <<>>)
    IN  IF ~rSig.ok THEN Failed(rSig.err, rSig.cursor)
        ELSE IF rSig.value # SIGNATURE THEN Failed("BadSignature", rSig.cursor)
        ELSE IF ~rVer.ok THEN Failed(rVer.err, rVer.cursor)
        ELSE IF ~(rVer.value = 1 \/ rVer.value = 2)
             THEN Failed("UnsupportedVersion", rVer.cursor)
        ELSE IF ~rTree.ok THEN Failed(rTree.err, rTree.cursor)
        ELSE IF ~sec.ok THEN Failed(sec.err, sec.cursor)
        ELSE IF ~tree.ok THEN Failed(tree.err, tree.cursor)
        ELSE [ok |-> TRUE, err |-> "none", cursor |-> tree.cursor,
              file |-> [loaded |-> TRUE,
                        path |-> path,
                        version |-> rVer.value,
                        sizes |-> sec.sizes,
                        entries |-> tree.entries,
                        data |-> residualData(d, dataOffset(rVer.value, rTree.value)),
                        fdCache |-> <<>>]]

(***************************************************************************)
(* crc32 of the crc package: CRC-32 (polynomial 0xedb88320, reflected),    *)
(* computed bit by bit on the two 16-bit halves of the register            *)
(***************************************************************************)

\* a ^ b for 0 <= a, b < 2^n
RECURSIVE xorBits(_, _, _)
xorBits(a, b, n) ==
    IF n = 0 THEN 0 ELSE ((a + b) % 2) + 2 * xorBits(a \div 2, b \div 2, n - 1)

xor16(a, b) == xorBits(a, b, 16)

\* one bit of the register <<hi, lo>>: shift right, xor the polynomial in when a 1 fell out
RECURSIVE crcShift(_, _)
crcShift(reg, k) ==
    IF k = 0 THEN reg
    ELSE LET hi == reg[1] \div 2
             lo == (reg[2] \div 2) + 32768 * (reg[1] % 2)
         IN  crcShift(IF reg[2] % 2 = 1 THEN <<xor16(hi, 60856), xor16(lo, 33568)>>
                      ELSE <<hi, lo>>, k - 1)

RECURSIVE crcBytes(_, _, _)
crcBytes(reg, b, i) ==
    IF i > Len(b) THEN reg
    ELSE crcBytes(crcShift(<<reg[1], xor16(reg[2], b[i])>>, 8), b, i + 1)

crc32(b) ==
    LET reg == crcBytes(<<65535, 65535>>, b, 1)
    IN  65536 * xor16(reg[1], 65535) + xor16(reg[2], 65535)

(***************************************************************************)
(* VPKFile.readFile and VPKFile.closeSubArchives                           *)
(***************************************************************************)

\* path.replace(/\\/g, '/')
normalizePath(p) == [i \in 1..Len(p) |-> IF p[i] = Backslash THEN Slash ELSE p[i]]

\* Buffer.alloc(n)
alloc(n) == [i \in 1..n |-> 0]

\* `bytes` written into buff from index `at` on
fill(buff, at, bytes) ==
    [i \in 1..Len(buff) |->
        IF i > at /\ i <= at + Len(bytes) THEN bytes[i - at] ELSE buff[i]]

Min(a, b) == IF a < b THEN a ELSE b

\* source.copy(target, targetStart, sourceStart, sourceEnd): throws when
\* sourceStart is past the source, copies nothing when the range is empty, and
\* never copies past the end of the source or of the target
bufferCopy(source, target, targetStart, sourceStart, sourceEnd) ==
    IF sourceStart > Len(source) THEN [ok |-> FALSE, buff |-> target]
    ELSE IF targetStart >= Len(target) \/ sourceStart >= sourceEnd
         THEN [ok |-> TRUE, buff |-> target]
         ELSE LET nb == Min(Min(sourceEnd - sourceStart, Len(target) - targetStart),
                            Len(source) - sourceStart)
              IN  [ok |-> TRUE,
                   buff |-> fill(target, targetStart, subarray(source, sourceStart, sourceStart + nb))]

\* this.data.copy(buff, preloadBytes, entryOffset, entryLength)
copySelfData(data, buff, preloadBytes, entryOffset, entryLength) ==
    bufferCopy(data, buff, preloadBytes, entryOffset, entryLength)

\* archiveIndex.toString(): the decimal digits
RECURSIVE digits(_)
digits(n) == IF n < 10 THEN <<n>> ELSE digits(n \div 10) \o <<n % 10>>

\* s.padStart(3, '0')
RECURSIVE padStart3(_)
padStart3(s) == IF Len(s) >= 3 THEN s ELSE padStart3(<<0>> \o s)

\* this.path.replace(/_dir\.vpk$/, `_${...}.vpk`): a path is its stem and what
\* stands between "_" and ".vpk"; a path that does not end in _dir.vpk is kept
archivePath(path, archiveIndex) ==
    IF path.suffix = "_dir" THEN [stem |-> path.stem, suffix |-> padStart3(digits(archiveIndex))]
    ELSE path

\* the cache with archiveIndex bound to fd
cacheSet(cache, archiveIndex, fd) == mapSet(cache, archiveIndex, fd)

\* the descriptor left out of the cache
cacheNotSet(cache, archiveIndex, fd) == cache

\* the descriptor cached only when the archive index has none yet
cacheSetIfAbsent(cache, archiveIndex, fd) ==
    IF archiveIndex \in DOMAIN cache THEN cache ELSE cacheSet(cache, archiveIndex, fd)

\* this.fdCache.set(archiveIndex, fd), after every open
cacheAfterOpen(cache, archiveIndex, fd) == cacheSet(cache, archiveIndex, fd)

\* this.fdCache.clear()
cacheCleared(cache) == <<>>

\* a missing entry met by the destructuring of undefined
missingEntryUnchecked == "TypeError"

\* assert(entries.has(path), `File ${path} not found`)
missingEntry == "FileNotFound"

\* [ ...cache.values() ]
cacheValues(cache) == { cache[k] : k \in DOMAIN cache }

\* [ ...cache.values() ].map(close): map calls close(fd, index, array), so
\* fs.close is handed the index where it expects its callback and throws a
\* TypeError before it closes anything: every promise of the array is
\* rejected and no descriptor is closed.  An empty cache makes no call.
closeEach(cache) ==
    [closed |-> {}, err |-> IF cacheValues(cache) = {} THEN "none" ELSE "TypeError"]

\* the sibling archive files on disk: pak01_001.vpk and pak01_002.vpk; there
\* is no pak01_003.vpk
Disk ==
    ([stem |-> "pak01", suffix |-> <<0, 0, 1>>] :> <<48, 40, 93>>)
    @@ ([stem |-> "pak01", suffix |-> <<0, 0, 2>>] :> <<17, 23>>)

\* the lowest descriptor the process has free
FirstFd == 3
RECURSIVE lowestFree(_, _)
lowestFree(open, fd) == IF fd \in open THEN lowestFree(open, fd + 1) ELSE fd

\* fs.read(fd, buff, offset, length, position) on a file holding `content`
fsRead(content, buff, offset, length, position) ==
    LET got == subarray(content, position, position + length)
    IN  [bytesRead |-> Len(got), buff |-> fill(buff, offset, got)]

\* the end of readFile's external branch, once fs.read has returned: the
\* length assertion, then the optional checksum assertion
afterRead(bytesRead, buff, entryLength, validate, CRC) ==
    IF bytesRead # entryLength THEN "ShortRead"
    ELSE IF validate /\ crc32(buff) # CRC THEN "ValidationFailed"
    ELSE "none"

\* the call slots, the closeSubArchives call and the history before any call
NoTask == [pc |-> "idle"]
NoTasks == <<>>
NoCloser == [pc |-> "idle"]
NoHist == [reads |-> 0, closes |-> 0, opens |-> <<>>, sets |-> <<>>, serial |-> TRUE]
NoFrame == [pc |-> "none"]

(***************************************************************************)
(* A BinaryParser driven by arbitrary calls                                *)
(***************************************************************************)

\* the longest buffer handed to a parser
MaxLen == 4
\* cursor-moving calls are issued while the cursor is at most this
MaxCursor == 6

\* byte values of the buffers: a terminator, a letter, a byte with the high bit set
CursorBytes == {0, 65, 200}

\* the buffers: every byte that a u32 read can take as its top byte is below 128
CursorBuffers ==
    UNION { { b \in [1..n -> CursorBytes] : \A i \in 4..n : b[i] < 128 } : n \in 0..MaxLen }

Offsets == -1..(MaxLen + 1)

NoCall == [op |-> "none", arg |-> 0, mode |-> Absolute, pre |-> 0,
           ok |-> TRUE, err |-> "none", value |-> <<>>]

Call(op, arg, mode, r) ==
    [op |-> op, arg |-> arg, mode |-> mode, pre |-> cursor,
     ok |-> r.ok, err |-> r.err, value |-> r.value]

\* the variables of the directory reader, which a bare parser does not touch
ReaderIdle ==
    /\ desc = <<>>
    /\ input = <<>>
    /\ file = NoFile
    /\ outcome = "pending"
    /\ fds = <<>>
    /\ task = NoTasks
    /\ closer = NoCloser
    /\ hist = NoHist
    /\ frame = NoFrame

ReaderVars == <<desc, input, file, outcome, fds, task, closer, hist, frame>>

CursorInit ==
    /\ pdata \in CursorBuffers
    /\ cursor = 0
    /\ last = NoCall
    /\ iter = "none"
    /\ ReaderIdle

\* a call that leaves the generator alone
Apply(op, arg, mode, r) ==
    /\ cursor' = r.cursor
    /\ last' = Call(op, arg, mode, r)
    /\ UNCHANGED <<pdata, iter>>
    /\ UNCHANGED ReaderVars

DoReadUInt32LE ==
    /\ cursor <= MaxCursor
    /\ Apply("readUInt32LE", 0, Absolute, readUInt32LE(pdata, cursor))

DoReadUInt32LEAt ==
    \E offset \in Offsets :
        Apply("readUInt32LEAt", offset, Absolute, readUInt32LEAt(pdata, cursor, offset))

DoReadUInt16LE ==
    /\ cursor <= MaxCursor
    /\ Apply("readUInt16LE", 0, Absolute, readUInt16LE(pdata, cursor))

DoReadUInt16LEAt ==
    \E offset \in Offsets :
        Apply("readUInt16LEAt", offset, Absolute, readUInt16LEAt(pdata, cursor, offset))

DoReadString ==
    /\ cursor <= MaxCursor
    /\ Apply("readString", 0, Absolute, readString(pdata, cursor))

DoReadStringAt ==
    \E offset \in Offsets :
        Apply("readStringAt", offset, Absolute, readStringAt(pdata, cursor, offset))

DoReadBytes ==
    \E bytes \in 0..(MaxLen + 1) :
        Apply("readBytes", bytes, Absolute, readBytes(pdata, cursor, bytes))

DoSeek ==
    \E offset \in Offsets, mode \in {Absolute, Relative} :
        Apply("seek", offset, mode, seek(pdata, cursor, offset, mode))

DoSeekNone == Apply("seekNone", 0, Absolute, seekNone(pdata, cursor))

DoReset == Apply("reset", 0, Absolute, reset(pdata, cursor))

DoEof == Apply("eof", 0, Absolute, eof(pdata, cursor))

\* asIterator(): the generator object is created, its body has not started
DoAsIterator ==
    /\ iter' = "fresh"
    /\ last' = Call("asIterator", 0, Absolute, Returned(cursor, <<>>))
    /\ UNCHANGED <<pdata, cursor>>
    /\ UNCHANGED ReaderVars

\* next() on the generator.  The call record also keeps the run of next()
\* calls it belongs to: where the generator's body started, the bytes it has
\* yielded, and whether nothing but next() was called since the body started.
DoIteratorNext ==
    /\ iter \in {"fresh", "suspended", "done"}
    /\ cursor <= MaxCursor
    /\ LET r == asIteratorNext(pdata, cursor, iter)
           got == IF r.yielded THEN <<r.value>> ELSE <<>>
           run == IF iter = "fresh"
                  THEN [start |-> cursor, taken |-> got, straight |-> TRUE]
                  ELSE IF last.op = "next"
                       THEN [start |-> last.start, taken |-> last.taken \o got,
                             straight |-> last.straight]
                       ELSE [start |-> cursor, taken |-> got, straight |-> FALSE]
       IN  /\ cursor' = r.cursor
           /\ iter' = r.st
           /\ last' = [op |-> "next", arg |-> 0, mode |-> Absolute, pre |-> cursor,
                       ok |-> r.yielded, err |-> "none", value |-> r.value] @@ run
    /\ UNCHANGED pdata
    /\ UNCHANGED ReaderVars

CursorNext ==
    \/ DoReadUInt32LE
    \/ DoReadUInt32LEAt
    \/ DoReadUInt16LE
    \/ DoReadUInt16LEAt
    \/ DoReadString
    \/ DoReadStringAt
    \/ DoReadBytes
    \/ DoSeek
    \/ DoSeekNone
    \/ DoReset
    \/ DoEof
    \/ DoAsIterator
    \/ DoIteratorNext

SpecCursor == CursorInit /\ [][CursorNext]_vars

(***************************************************************************)
(* Directory files: the layout of section 6 written out as bytes           *)
(***************************************************************************)

U16(n) == <<n % 256, n \div 256>>
U32(n) == <<n % 256, (n \div 256) % 256, (n \div 65536) % 256, n \div 16777216>>
\* a null-terminated string
Str(s) == s \o <<0>>

\* a file name and its entry record, preload bytes included
FileBytes(f) ==
    Str(f.fileName) \o U32(f.CRC) \o U16(f.preloadBytes) \o U16(f.archiveIndex)
        \o U32(f.entryOffset) \o U32(f.entryLength) \o U16(f.term) \o f.preload

\* the tree of a list of files: a run of files of one folder shares the folder,
\* a run of folders of one extension shares the extension
RECURSIVE TreeBytes(_, _)
TreeBytes(files, i) ==
    IF i > Len(files) THEN (IF i = 1 THEN <<0>> ELSE <<0, 0, 0>>)
    ELSE LET f == files[i]
             open == IF i = 1
                     THEN Str(f.extension) \o Str(f.folder)
                     ELSE IF files[i - 1].extension # f.extension
                          THEN <<0, 0>> \o Str(f.extension) \o Str(f.folder)
                          ELSE IF files[i - 1].folder # f.folder
                               THEN <<0>> \o Str(f.folder)
                               ELSE <<>>
         IN  open \o FileBytes(f) \o TreeBytes(files, i + 1)

HeaderBytes(h) ==
    U32(h.magic) \o U32(h.version) \o U32(h.treeSize)
        \o (IF h.version = 2
            THEN U32(h.fileData) \o U32(h.archiveMD5) \o U32(h.otherMD5) \o U32(h.signature)
            ELSE <<>>)

\* the whole file, cut after its first `keep` bytes
DirBytes(l) ==
    LET whole == HeaderBytes(l.header) \o TreeBytes(l.files, 1) \o l.tail
    IN  subarray(whole, 0, l.keep)

DirPath == [stem |-> "pak01", suffix |-> "_dir"]

(***************************************************************************)
(* fromFile on directory files of every shape                              *)
(***************************************************************************)

\* the most files a tree lists
MaxFiles == 2

\* "t", "u": extensions; "d", "e": folders; "a", "b", "c", "k": file names
FileA == [extension |-> <<116>>, folder |-> <<100>>, fileName |-> <<97>>,
          CRC |-> 305419896, preloadBytes |-> 0, archiveIndex |-> 1,
          entryOffset |-> 0, entryLength |-> 2, term |-> ENTRY_TERMINATOR, preload |-> <<>>]
FileB == [extension |-> <<116>>, folder |-> <<100>>, fileName |-> <<98>>,
          CRC |-> 66, preloadBytes |-> 2, archiveIndex |-> SELF_ARCHIVE,
          entryOffset |-> 1, entryLength |-> 1, term |-> ENTRY_TERMINATOR, preload |-> <<9, 200>>]
\* a record whose terminator is 0xfeff
FileC == [extension |-> <<116>>, folder |-> <<101>>, fileName |-> <<99>>,
          CRC |-> 67, preloadBytes |-> 0, archiveIndex |-> 2,
          entryOffset |-> 3, entryLength |-> 4, term |-> 65279, preload |-> <<>>]
\* preload only, and a name with a backslash-free path of its own extension
FileK == [extension |-> <<117>>, folder |-> <<100>>, fileName |-> <<107, 200>>,
          CRC |-> 68, preloadBytes |-> 1, archiveIndex |-> 1,
          entryOffset |-> 0, entryLength |-> 0, term |-> ENTRY_TERMINATOR, preload |-> <<7>>]

FileKinds == {FileA, FileB, FileC, FileK}

FileLists == UNION { [1..n -> FileKinds] : n \in 0..MaxFiles }

Tails == {<<>>, <<7, 8, 9>>}

Header(magic, version, treeSize, otherMD5) ==
    [magic |-> magic, version |-> version, treeSize |-> treeSize,
     fileData |-> 5, archiveMD5 |-> 28, otherMD5 |-> otherMD5, signature |-> 296]

WholeLen(header, files, tail) ==
    Len(HeaderBytes(header)) + Len(TreeBytes(files, 1)) + Len(tail)

\* whole files: every header, with treeSize right, zero, one too many, or far past the end
HeaderLayouts ==
    { [header |-> Header(magic, version, treeSize, otherMD5), files |-> files, tail |-> tail,
       keep |-> WholeLen(Header(magic, version, treeSize, otherMD5), files, tail)] :
        magic \in {SIGNATURE, 0}, version \in {1, 2, 3}, otherMD5 \in {OTHER_MD5_SIZE, 0},
        treeSize \in {0, 200}, files \in FileLists, tail \in Tails }
    \cup
    { [header |-> Header(SIGNATURE, version, Len(TreeBytes(files, 1)) + more, OTHER_MD5_SIZE),
       files |-> files, tail |-> tail,
       keep |-> WholeLen(Header(SIGNATURE, version, 0, OTHER_MD5_SIZE), files, tail)] :
        version \in {1, 2}, more \in {0, 1}, files \in FileLists, tail \in Tails }

\* well-formed files cut short at every length
CutLayouts ==
    UNION { { [header |-> Header(SIGNATURE, version, Len(TreeBytes(files, 1)), OTHER_MD5_SIZE),
               files |-> files, tail |-> <<>>, keep |-> keep] :
                keep \in 0..(WholeLen(Header(SIGNATURE, version, 0, OTHER_MD5_SIZE), files, <<>>) - 1) } :
            version \in {1, 2}, files \in FileLists }

Layouts == HeaderLayouts \cup CutLayouts

CursorIdle ==
    /\ pdata = <<>>
    /\ cursor = 0
    /\ last = NoCall
    /\ iter = "none"

ParseInit ==
    /\ desc \in Layouts
    /\ input = DirBytes(desc)
    /\ file = NoFile
    /\ outcome = "pending"
    /\ fds = <<>>
    /\ task = NoTasks
    /\ closer = NoCloser
    /\ hist = NoHist
    /\ frame = NoFrame
    /\ CursorIdle

\* the call of fromFile; pdata and cursor are its parser, as the call leaves it
FromFile ==
    /\ outcome = "pending"
    /\ LET r == fromFile(DirPath, input)
       IN  /\ outcome' = (IF r.ok THEN "ok" ELSE r.err)
           /\ file' = r.file
           /\ pdata' = input
           /\ cursor' = r.cursor
    /\ UNCHANGED <<last, iter, desc, input, fds, task, closer, hist, frame>>

ParseNext == FromFile

SpecParse == ParseInit /\ [][ParseNext]_vars

(***************************************************************************)
(* fromFile followed call by call: one step for every call it makes to its *)
(* parser                                                                  *)
(***************************************************************************)

TreeInit ==
    /\ ReaderIdle
    /\ CursorIdle

\* const data = await readFile(path): the bytes of the directory file arrive
ReadDirectoryFile ==
    /\ outcome = "pending"
    /\ frame.pc = "none"
    /\ \E l \in Layouts :
           /\ desc' = l
           /\ input' = DirBytes(l)
    /\ frame' = [pc |-> "signature"]
    /\ UNCHANGED <<pdata, cursor, last, iter, file, outcome, fds, task, closer, hist>>

\* the record of a parser call made by fromFile: where the cursor was, how the
\* call ended, and the number or the bytes it returned
ParserCall(op, r) ==
    [op |-> op, pre |-> cursor, ok |-> r.ok, err |-> r.err,
     number |-> IF r.ok /\ op \in {"readUInt32LE", "readUInt16LE"} THEN r.value ELSE 0,
     bytes |-> IF r.ok /\ op \in {"readString", "readBytes"} THEN r.value ELSE <<>>]

\* a parser call of fromFile has thrown, or an assertion has failed
Abort(e) ==
    /\ outcome' = e
    /\ frame' = [pc |-> "done"]
    /\ UNCHANGED file

\* the call moves on to its next parser call
Goto(f) ==
    /\ frame' = f
    /\ UNCHANGED <<outcome, file>>

HeaderFields ==
    {"signature", "version", "treeSize", "fileDataSectionSize", "archiveMD5SectionSize",
     "otherMD5SectionSize", "signatureSectionSize"}

\* the call as it enters the tree's outermost loop
EnterTree(f) ==
    [pc |-> "extension", extension |-> <<>>, folder |-> <<>>, entries |-> <<>>,
     version |-> f.version, sizes |-> f.sizes, dataOffset |-> f.dataOffset]

\* one readUInt32LE() of the header and what follows it up to the next parser
\* call: the assertion on the value read, the field it is stored in, dataOffset
HeaderRead ==
    /\ frame.pc \in HeaderFields
    /\ LET r == readUInt32LE(input, cursor)
           unset == [fileDataSectionSize |-> Undefined, archiveMD5SectionSize |-> Undefined,
                     otherMD5SectionSize |-> Undefined, signatureSectionSize |-> Undefined]
       IN  /\ pdata' = input
           /\ cursor' = r.cursor
           /\ last' = ParserCall("readUInt32LE", r)
           /\ IF ~r.ok THEN Abort(r.err)
              ELSE IF frame.pc = "signature"
                   THEN IF r.value # SIGNATURE THEN Abort("BadSignature")
                        ELSE Goto([pc |-> "version"])
              ELSE IF frame.pc = "version"
                   THEN IF ~(r.value = 1 \/ r.value = 2) THEN Abort("UnsupportedVersion")
                        ELSE Goto([pc |-> "treeSize", version |-> r.value])
              ELSE IF frame.pc = "treeSize"
                   THEN IF frame.version = 2
                        THEN Goto([pc |-> "fileDataSectionSize", version |-> frame.version,
                                   dataOffset |-> dataOffset(frame.version, r.value),
                                   sizes |-> unset])
                        ELSE Goto(EnterTree([version |-> frame.version, sizes |-> unset,
                                             dataOffset |-> dataOffset(frame.version, r.value)]))
              ELSE IF frame.pc = "fileDataSectionSize"
                   THEN Goto([frame EXCEPT !.pc = "archiveMD5SectionSize",
                                           !.sizes.fileDataSectionSize = r.value])
              ELSE IF frame.pc = "archiveMD5SectionSize"
                   THEN Goto([frame EXCEPT !.pc = "otherMD5SectionSize",
                                           !.sizes.archiveMD5SectionSize = r.value])
              ELSE IF frame.pc = "otherMD5SectionSize"
                   THEN IF r.value # OTHER_MD5_SIZE THEN Abort("InvalidHeader")
                        ELSE Goto([frame EXCEPT !.pc = "signatureSectionSize",
                                                !.sizes.otherMD5SectionSize = r.value])
              ELSE Goto(EnterTree([frame EXCEPT !.sizes.signatureSectionSize = r.value]))
    /\ UNCHANGED <<iter, desc, input, fds, task, closer, hist>>

StringReads == {"extension", "folder", "fileName"}

\* the readString() at the head of one of the three loops: an empty string
\* leaves the loop, and leaving the outermost loop ends fromFile
StringRead ==
    /\ frame.pc \in StringReads
    /\ LET s == readString(pdata, cursor)
       IN  /\ cursor' = s.cursor
           /\ last' = ParserCall("readString", s)
           /\ IF s.value = <<>>
              THEN IF frame.pc = "extension"
                   THEN /\ outcome' = "ok"
                        /\ file' = [loaded |-> TRUE,
                                    path |-> DirPath,
                                    version |-> frame.version,
                                    sizes |-> frame.sizes,
                                    entries |-> frame.entries,
                                    data |-> residualData(pdata, frame.dataOffset),
                                    fdCache |-> <<>>]
                        /\ frame' = [pc |-> "done"]
                   ELSE IF frame.pc = "folder"
                        THEN Goto([frame EXCEPT !.pc = "extension"])
                        ELSE Goto([frame EXCEPT !.pc = "folder"])
              ELSE IF frame.pc = "extension"
                   THEN Goto([frame EXCEPT !.pc = "folder", !.extension = s.value])
              ELSE IF frame.pc = "folder"
                   THEN Goto([frame EXCEPT !.pc = "fileName", !.folder = s.value])
              ELSE Goto([frame EXCEPT !.pc = "CRC"]
                        @@ [node |-> [path |-> entryPath(frame.folder, s.value, frame.extension),
                                      extension |-> frame.extension,
                                      folder |-> frame.folder,
                                      fileName |-> s.value]])
    /\ UNCHANGED <<pdata, iter, desc, input, fds, task, closer, hist>>

RecordFields == {"CRC", "preloadBytes", "archiveIndex", "entryOffset", "entryLength"}

\* the field read after `at`
FieldAfter(at) ==
    IF at = "CRC" THEN "preloadBytes"
    ELSE IF at = "preloadBytes" THEN "archiveIndex"
    ELSE IF at = "archiveIndex" THEN "entryOffset"
    ELSE IF at = "entryOffset" THEN "entryLength"
    ELSE "terminator"

\* the call with the entry in hand stored and the inner loop resumed
WithEntry(f, node) ==
    [pc |-> "fileName", extension |-> f.extension, folder |-> f.folder,
     entries |-> mapSet(f.entries, node.path, node),
     version |-> f.version, sizes |-> f.sizes, dataOffset |-> f.dataOffset]

\* one integer read of an entry's record
RecordRead ==
    /\ frame.pc \in RecordFields
    /\ LET r == IF frame.pc \in {"preloadBytes", "archiveIndex"}
                THEN readUInt16LE(pdata, cursor)
                ELSE readUInt32LE(pdata, cursor)
       IN  /\ cursor' = r.cursor
           /\ last' = ParserCall(IF frame.pc \in {"preloadBytes", "archiveIndex"}
                                 THEN "readUInt16LE" ELSE "readUInt32LE", r)
           /\ IF ~r.ok THEN Abort(r.err)
              ELSE Goto([frame EXCEPT !.pc = FieldAfter(frame.pc),
                                      !.node = @ @@ (frame.pc :> r.value)])
    /\ UNCHANGED <<pdata, iter, desc, input, fds, task, closer, hist>>

\* the read of the record's terminator and its assertion; an entry without
\* preload bytes is stored
TerminatorRead ==
    /\ frame.pc = "terminator"
    /\ LET r == readUInt16LE(pdata, cursor)
       IN  /\ cursor' = r.cursor
           /\ last' = ParserCall("readUInt16LE", r)
           /\ IF ~r.ok THEN Abort(r.err)
              ELSE IF ~entryTerminatorOk(r.value) THEN Abort("BadEntryTerminator")
              ELSE IF hasPreload(frame.node.preloadBytes)
                   THEN Goto([frame EXCEPT !.pc = "preload"])
                   ELSE Goto(WithEntry(frame, frame.node))
    /\ UNCHANGED <<pdata, iter, desc, input, fds, task, closer, hist>>

\* node.preload = parser.readBytes(preloadBytes), and the entry is stored
PreloadRead ==
    /\ frame.pc = "preload"
    /\ LET r == readBytes(pdata, cursor, frame.node.preloadBytes)
       IN  /\ cursor' = r.cursor
           /\ last' = ParserCall("readBytes", r)
           /\ IF ~r.ok THEN Abort(r.err)
              ELSE Goto(WithEntry(frame, frame.node @@ [preload |-> r.value]))
    /\ UNCHANGED <<pdata, iter, desc, input, fds, task, closer, hist>>

TreeNext ==
    \/ ReadDirectoryFile
    \/ HeaderRead
    \/ StringRead
    \/ RecordRead
    \/ TerminatorRead
    \/ PreloadRead

\* fromFile is synchronous code: a call that can take its next step takes it
\* (every step moves the cursor or the call's position)
SpecTree == TreeInit /\ [][TreeNext]_vars /\ WF_<<cursor, frame.pc>>(TreeNext)

(***************************************************************************)
(* A loaded directory read by concurrent readFile calls                    *)
(***************************************************************************)

\* readFile calls that can be in flight together
MaxTasks == 2
\* readFile calls made in one run
MaxReads == 2
\* closeSubArchives calls made in one run
MaxCloses == 1

\* pak01_dir.vpk: "d/a.t" and "d/b.t" in archive 1, "d/c.t" in archive 2 (which
\* is too short for it), "e/a.t" in the missing archive 3, "e/s.u" in the
\* directory file itself, "e/p.u" wholly preloaded
ExtGood == [extension |-> <<116>>, folder |-> <<100>>, fileName |-> <<97>>,
            CRC |-> 157192476, preloadBytes |-> 0, archiveIndex |-> 1,
            entryOffset |-> 1, entryLength |-> 2, term |-> ENTRY_TERMINATOR, preload |-> <<>>]
ExtBadCrc == [extension |-> <<116>>, folder |-> <<100>>, fileName |-> <<98>>,
              CRC |-> 981853623, preloadBytes |-> 1, archiveIndex |-> 1,
              entryOffset |-> 0, entryLength |-> 2, term |-> ENTRY_TERMINATOR, preload |-> <<63>>]
ExtShort == [extension |-> <<116>>, folder |-> <<100>>, fileName |-> <<99>>,
             CRC |-> 5, preloadBytes |-> 0, archiveIndex |-> 2,
             entryOffset |-> 1, entryLength |-> 2, term |-> ENTRY_TERMINATOR, preload |-> <<>>]
ExtMissing == [extension |-> <<116>>, folder |-> <<101>>, fileName |-> <<97>>,
               CRC |-> 6, preloadBytes |-> 0, archiveIndex |-> 3,
               entryOffset |-> 0, entryLength |-> 1, term |-> ENTRY_TERMINATOR, preload |-> <<>>]
SelfAtOne == [extension |-> <<117>>, folder |-> <<101>>, fileName |-> <<115>>,
              CRC |-> 695172159, preloadBytes |-> 1, archiveIndex |-> SELF_ARCHIVE,
              entryOffset |-> 1, entryLength |-> 2, term |-> ENTRY_TERMINATOR, preload |-> <<25>>]
PreloadOnly == [extension |-> <<117>>, folder |-> <<101>>, fileName |-> <<112>>,
                CRC |-> 1, preloadBytes |-> 2, archiveIndex |-> 1,
                entryOffset |-> 0, entryLength |-> 0, term |-> ENTRY_TERMINATOR, preload |-> <<15, 200>>]

ReadFiles == <<ExtGood, ExtBadCrc, ExtShort, ExtMissing, SelfAtOne, PreloadOnly>>

ReadLayout ==
    [header |-> Header(SIGNATURE, 2, Len(TreeBytes(ReadFiles, 1)), OTHER_MD5_SIZE),
     files |-> ReadFiles, tail |-> <<10, 29, 97>>,
     keep |-> WholeLen(Header(SIGNATURE, 2, 0, OTHER_MD5_SIZE), ReadFiles, <<10, 29, 97>>)]

\* the paths callers ask for: every entry, "d\a.t", and "d/z.t", which is no entry
AskedPaths ==
    { entryPath(ReadFiles[i].folder, ReadFiles[i].fileName, ReadFiles[i].extension) :
        i \in 1..Len(ReadFiles) }
    \cup {<<100, Backslash, 97, Dot, 116>>, <<100, Slash, 122, Dot, 116>>}

Tasks == 1..MaxTasks

InFlight(t) == task[t].pc \in {"opening", "opened", "reading"}

ReadInit ==
    /\ desc = ReadLayout
    /\ input = DirBytes(ReadLayout)
    /\ file = fromFile(DirPath, DirBytes(ReadLayout)).file
    /\ outcome = "ok"
    /\ fds = <<>>
    /\ task = [t \in Tasks |-> NoTask]
    /\ closer = NoCloser
    /\ hist = NoHist
    /\ frame = NoFrame
    /\ CursorIdle

\* a call's record once it has returned or thrown
Done(path, validate, err, buff, before, after, alone, drained) ==
    [pc |-> "done", path |-> path, validate |-> validate, err |-> err, buff |-> buff,
     cacheBefore |-> before, cacheAfter |-> after, alone |-> alone, drained |-> drained]

\* readFile(p, validate) up to its first await: the lookup, the buffer, the
\* preload, and either the copy from the directory's own data or the call of open.
\* The call takes the first slot with no call in flight; the records of calls
\* that have ended are dropped when a new call starts.
ReadStart(t, p, validate) ==
    /\ file.loaded
    /\ ~InFlight(t)
    /\ \A u \in 1..(t - 1) : InFlight(u)
    /\ hist.reads < MaxReads
    /\ LET path == normalizePath(p)
           alone == closer.pc # "closing" /\ \A u \in Tasks : ~InFlight(u)
           drained == closer.pc = "closing"
           e == file.entries[path]
           buff0 == alloc(e.preloadBytes + e.entryLength)
           buff1 == IF "preload" \in DOMAIN e
                    THEN bufferCopy(e.preload, buff0, 0, 0, Len(e.preload)).buff
                    ELSE buff0
           copied == copySelfData(file.data, buff1, e.preloadBytes, e.entryOffset, e.entryLength)
       IN  /\ hist' = [hist EXCEPT !.reads = @ + 1, !.serial = @ /\ alone]
           /\ closer' = IF closer.pc = "closing" THEN [closer EXCEPT !.clean = FALSE] ELSE closer
           /\ task' = [u \in Tasks |->
                 IF u # t
                 THEN (IF InFlight(u) THEN [task[u] EXCEPT !.alone = FALSE] ELSE NoTask)
                 ELSE IF path \notin DOMAIN file.entries
                      THEN Done(path, validate, missingEntry, <<>>, file.fdCache, file.fdCache,
                                alone, drained)
                 ELSE IF e.entryLength > 0
                      THEN IF e.archiveIndex = SELF_ARCHIVE
                           THEN Done(path, validate, IF copied.ok THEN "none" ELSE "OutOfRange",
                                     IF copied.ok THEN copied.buff ELSE <<>>,
                                     file.fdCache, file.fdCache, alone, drained)
                           ELSE [pc |-> "opening", path |-> path, validate |-> validate,
                                 buff |-> buff1, cacheBefore |-> file.fdCache, alone |-> alone,
                                 drained |-> drained]
                      ELSE Done(path, validate, "none", buff1, file.fdCache, file.fdCache,
                                alone, drained)]
    /\ UNCHANGED <<pdata, cursor, last, iter, desc, input, file, outcome, fds, frame>>

\* open(2) runs in the thread pool: the process gets the lowest descriptor
\* free at that moment, or the call fails for want of the file.  Opens in
\* flight together run in any order.
OpenRun(t) ==
    /\ task[t].pc = "opening"
    /\ LET e == file.entries[task[t].path]
           archive == archivePath(file.path, e.archiveIndex)
           fd == lowestFree(DOMAIN fds, FirstFd)
       IN  IF archive \in DOMAIN Disk
           THEN /\ fds' = mapSet(fds, fd, archive)
                /\ task' = [task EXCEPT ![t] =
                               [@ EXCEPT !.pc = "opened"] @@ [fd |-> fd, errno |-> "none"]]
                /\ hist' = [hist EXCEPT !.opens =
                               mapSet(@, e.archiveIndex,
                                      IF e.archiveIndex \in DOMAIN @ THEN @[e.archiveIndex] + 1 ELSE 1)]
           ELSE /\ task' = [task EXCEPT ![t] =
                               [@ EXCEPT !.pc = "opened"] @@ [fd |-> 0, errno |-> "ENOENT"]]
                /\ UNCHANGED <<fds, hist>>
    /\ UNCHANGED <<pdata, cursor, last, iter, desc, input, file, outcome, closer, frame>>

\* the continuation of await open, in any order among the opens that have
\* run: the descriptor is cached and fs.read is called, or the call ends with
\* open's error.  The call's record keeps nth, the number of this cache write
\* among the writes for its archive index.
OpenDone(t) ==
    /\ task[t].pc = "opened"
    /\ LET e == file.entries[task[t].path]
       IN  IF task[t].errno = "none"
           THEN /\ file' = [file EXCEPT !.fdCache = cacheAfterOpen(@, e.archiveIndex, task[t].fd)]
                /\ task' = [task EXCEPT ![t] =
                               [@ EXCEPT !.pc = "reading"]
                               @@ [nth |-> IF e.archiveIndex \in DOMAIN hist.sets
                                           THEN hist.sets[e.archiveIndex] + 1 ELSE 1]]
                /\ hist' = [hist EXCEPT !.sets =
                               mapSet(@, e.archiveIndex,
                                      IF e.archiveIndex \in DOMAIN @ THEN @[e.archiveIndex] + 1 ELSE 1)]
           ELSE /\ task' = [task EXCEPT ![t] =
                               Done(@.path, @.validate, "OpenFailed", <<>>,
                                    @.cacheBefore, file.fdCache, @.alone, @.drained)]
                /\ UNCHANGED <<file, hist>>
    /\ UNCHANGED <<pdata, cursor, last, iter, desc, input, outcome, fds, closer, frame>>

\* fs.read has returned: the rest of readFile
ReadDone(t) ==
    /\ task[t].pc = "reading"
    /\ LET e == file.entries[task[t].path]
           fd == task[t].fd
           r == fsRead(Disk[fds[fd]], task[t].buff, e.preloadBytes, e.entryLength, e.entryOffset)
           err == afterRead(r.bytesRead, r.buff, e.entryLength, task[t].validate, e.CRC)
       IN  task' = [task EXCEPT ![t] =
                       Done(@.path, @.validate, err, IF err = "none" THEN r.buff ELSE <<>>,
                            @.cacheBefore, file.fdCache, @.alone, @.drained)
                       @@ [fd |-> fd, nth |-> task[t].nth,
                           bytesRead |-> r.bytesRead, read |-> r.buff]]
    /\ UNCHANGED <<pdata, cursor, last, iter, desc, input, file, outcome, fds, closer, hist, frame>>

\* closeSubArchives() up to its await: the cache is copied and cleared, and
\* close is mapped over the descriptors of the copy, which closes none of
\* them.  The call's record keeps the number of readFile calls made before it
\* (after) and whether no readFile call has run since it was made (clean).
CloseStart ==
    /\ file.loaded
    /\ closer.pc # "closing"
    /\ hist.closes < MaxCloses
    /\ LET cache == file.fdCache
           cleared == cacheCleared(file.fdCache)
           calls == closeEach(cache)
           alone == \A u \in Tasks : ~InFlight(u)
       IN  /\ file' = [file EXCEPT !.fdCache = cleared]
           /\ fds' = [x \in DOMAIN fds \ calls.closed |-> fds[x]]
           /\ closer' = [pc |-> "closing", snapshot |-> cache, atIssue |-> cleared,
                         err |-> calls.err, clean |-> alone, after |-> hist.reads]
           /\ task' = [u \in Tasks |->
                          IF InFlight(u)
                          THEN [task[u] EXCEPT !.alone = FALSE, !.drained = TRUE]
                          ELSE task[u]]
           /\ hist' = [hist EXCEPT !.closes = @ + 1, !.serial = @ /\ alone]
    /\ UNCHANGED <<pdata, cursor, last, iter, desc, input, outcome, frame>>

\* Promise.all has settled and the await of closeSubArchives resumes: the call
\* returns when the copy was empty and throws the TypeError of its close calls
\* otherwise
CloseSettle ==
    /\ closer.pc = "closing"
    /\ closer' = [pc |-> IF closer.err = "none" THEN "returned" ELSE "threw",
                  err |-> closer.err,
                  snapshot |-> closer.snapshot, atIssue |-> closer.atIssue,
                  clean |-> closer.clean, after |-> closer.after,
                  cacheAtReturn |-> file.fdCache,
                  openAtReturn |-> DOMAIN fds]
    /\ UNCHANGED <<pdata, cursor, last, iter, desc, input, file, outcome, fds, task, hist, frame>>

Next ==
    \/ \E t \in Tasks, p \in AskedPaths, validate \in BOOLEAN : ReadStart(t, p, validate)
    \/ \E t \in Tasks : OpenRun(t)
    \/ \E t \in Tasks : OpenDone(t)
    \/ \E t \in Tasks : ReadDone(t)
    \/ CloseStart
    \/ CloseSettle

Init == ReadInit

Spec == Init /\ [][Next]_vars


(***************************************************************************)
(* Properties of the BinaryParser (under SpecCursor)                       *)
(***************************************************************************)

\* C4: after any sequence of parser calls, failed ones included, the cursor
\* is a non-negative integer that does not exceed the buffer length.
CursorWithinBuffer == cursor >= 0 /\ cursor <= Len(pdata)

\* where a seek call asks the cursor to go
SeekTarget == IF last.mode = Absolute THEN last.arg ELSE last.pre + last.arg

\* C10 (as amended): seek(offset, mode) succeeds, sets the cursor to the target
\* (offset, or cursor + offset when Relative) and returns it exactly when
\* 0 < target <= length; otherwise it fails with InvalidOffset and the cursor
\* keeps its value.  seek(0, Absolute) and seek(length + 1, Absolute) fail;
\* seek(length, Absolute) succeeds when the buffer is not empty.
SeekContract ==
    last.op = "seek" =>
        /\ IF 0 < SeekTarget /\ SeekTarget <= Len(pdata)
           THEN last.ok /\ cursor = SeekTarget /\ last.value = SeekTarget
           ELSE ~last.ok /\ last.err = "InvalidOffset" /\ cursor = last.pre
        /\ (last.mode = Absolute /\ last.arg = 0) => ~last.ok
        /\ (last.mode = Absolute /\ last.arg = Len(pdata) + 1) => ~last.ok
        /\ (last.mode = Absolute /\ last.arg = Len(pdata) /\ Len(pdata) > 0) => last.ok

\* C10 witness: a seek to the buffer's length has succeeded from elsewhere
SeekToLengthDone ==
    /\ last.op = "seek" /\ last.mode = Absolute /\ last.arg = Len(pdata)
    /\ last.ok /\ last.pre # Len(pdata) /\ cursor = Len(pdata)

\* C10 as stated: seek(length, Absolute) succeeds, whatever the buffer
SeekToLengthSucceeds ==
    (last.op = "seek" /\ last.mode = Absolute /\ last.arg = Len(pdata)) => last.ok

\* C11: the cursor form of readString called with the cursor at p returns the
\* bytes p .. e-1 (as ASCII text), e being the smallest index >= p that holds
\* a zero byte, or the buffer length if there is none, and leaves the cursor
\* at e + 1; when the byte at p is zero it returns the empty string and leaves
\* the cursor at p + 1.
ReadStringSpan ==
    last.op = "readString" =>
        LET p == last.pre
            zeros == { i \in p..(Len(pdata) - 1) : pdata[i + 1] = 0 }
            e == IF zeros # {} THEN CHOOSE i \in zeros : \A j \in zeros : i <= j
                 ELSE Len(pdata)
        IN  /\ last.value = [i \in 1..(e - p) |-> pdata[p + i] % 128]
            /\ cursor = e + 1
            /\ (p < Len(pdata) /\ pdata[p + 1] = 0) => (last.value = <<>> /\ cursor = p + 1)

\* C12: a successful cursor-form readUInt32LE, readUInt16LE or readBytes(n)
\* advances the cursor by exactly 4, 2 or n, and the offset forms of
\* readUInt32LE, readUInt16LE and readString leave the cursor where it was,
\* whether they succeed or fail.
ReadsAdvanceByWidth ==
    /\ (last.op = "readUInt32LE" /\ last.ok) => cursor = last.pre + 4
    /\ (last.op = "readUInt16LE" /\ last.ok) => cursor = last.pre + 2
    /\ (last.op = "readBytes" /\ last.ok) => cursor = last.pre + last.arg
    /\ last.op \in {"readUInt32LEAt", "readUInt16LEAt", "readStringAt"} => cursor = last.pre

\* C12 witness: an offset read has succeeded at an offset other than the
\* cursor's, which is inside the buffer and has not moved
OffsetReadLeftCursor ==
    /\ last.op = "readUInt16LEAt" /\ last.ok
    /\ last.pre > 0 /\ last.pre < Len(pdata) /\ last.arg # last.pre
    /\ cursor = last.pre

\* C20: when k bytes (1 <= k <= length - c) have been taken from the generator
\* of asIterator(), started with the cursor at c and with no other call in
\* between, they are the bytes c .. c+k-1 and the cursor is c + k; when the
\* generator is exhausted the cursor is the buffer length.
ByteSequenceAdvancesCursor ==
    (last.op = "next" /\ last.straight /\ last.start <= Len(pdata)) =>
        LET c == last.start
            k == Len(last.taken)
        IN  /\ (last.ok /\ k >= 1 /\ k <= Len(pdata) - c) =>
                   /\ last.taken = SubSeq(pdata, c + 1, c + k)
                   /\ cursor = c + k
            /\ ~last.ok => cursor = Len(pdata)

(***************************************************************************)
(* Properties of fromFile (under SpecParse)                                *)
(***************************************************************************)

\* magic, version 1, treeSize 0, and the empty extension that ends the tree
EmptyTreeV1 == <<52, 18, 170, 85, 1, 0, 0, 0, 0, 0, 0, 0, 0>>

\* C5 as stated: the 13-byte directory parses to an empty entry table and an
\* empty residual data region.
EmptyTreeParsesToEmptyResidual ==
    (input = EmptyTreeV1 /\ outcome # "pending") =>
        (outcome = "ok" /\ file.entries = <<>> /\ file.data = <<>>)

\* C5 (as amended): the 13-byte directory parses to an empty entry table, and
\* its residual data region is the one byte at offset 12, the tree's terminator.
EmptyTreeParsesToTerminatorResidual ==
    (input = EmptyTreeV1 /\ outcome # "pending") =>
        (outcome = "ok" /\ file.entries = <<>> /\ file.data = <<0>>)

\* C5 witness: the 13-byte directory has been parsed
EmptyTreeParsed == input = EmptyTreeV1 /\ outcome = "ok"

\* the header the input was written with is whole and acceptable
HeaderWellFormed ==
    /\ desc.header.magic = SIGNATURE
    /\ desc.header.version \in {1, 2}
    /\ desc.header.version = 2 => desc.header.otherMD5 = 48
    /\ desc.keep >= Len(HeaderBytes(desc.header))

\* C6: a successful parse records the header's version and, for version 2,
\* the four section sizes as stored, and the residual data is the input from
\* byte 12 + treeSize (version 1) or 28 + treeSize (version 2) onward.
HeaderRecovered ==
    outcome = "ok" =>
        /\ HeaderWellFormed
        /\ file.version = desc.header.version
        /\ file.version = 2 =>
               file.sizes = [fileDataSectionSize |-> desc.header.fileData,
                             archiveMD5SectionSize |-> desc.header.archiveMD5,
                             otherMD5SectionSize |-> desc.header.otherMD5,
                             signatureSectionSize |-> desc.header.signature]
        /\ LET from == (IF desc.header.version = 1 THEN 12 ELSE 28) + desc.header.treeSize
           IN  /\ \A i \in 1..Len(file.data) : file.data[i] = input[from + i]
               /\ Len(file.data) = (IF from >= Len(input) THEN 0 ELSE Len(input) - from)

\* C6 witness: a version 2 file is parsed whose tree loop stopped somewhere
\* else than 28 + treeSize, and data is left after that offset
HeaderRecoveredOffTree ==
    /\ outcome = "ok" /\ file.version = 2
    /\ cursor # 28 + desc.header.treeSize
    /\ file.data # <<>>
    /\ desc.files # <<>>

\* the first file of the layout whose record has a wrong terminator, or 0
FirstBadTerminator ==
    IF \E i \in 1..Len(desc.files) : desc.files[i].term # 65535
    THEN CHOOSE i \in 1..Len(desc.files) :
            /\ desc.files[i].term # 65535
            /\ \A j \in 1..(i - 1) : desc.files[j].term = 65535
    ELSE 0

\* the input holds the record of file k up to the end of its terminator
RecordReached(k) ==
    LET upTo == SubSeq(desc.files, 1, k)
    IN  desc.keep >= Len(HeaderBytes(desc.header)) + Len(TreeBytes(upTo, 1))
                        - 3 - Len(desc.files[k].preload)

\* C9: when the tree loop reaches a record whose terminator is not 0xFFFF,
\* fromFile fails with BadEntryTerminator and returns no directory, whatever
\* records came before it.
BadTerminatorAborts ==
    (/\ outcome # "pending"
     /\ HeaderWellFormed
     /\ FirstBadTerminator # 0
     /\ RecordReached(FirstBadTerminator))
        => (outcome = "BadEntryTerminator" /\ file = NoFile)

\* C9 witness: a parse failed on the terminator of a second record, after a
\* well-formed first one
BadTerminatorAfterGoodRecord ==
    /\ outcome = "BadEntryTerminator"
    /\ FirstBadTerminator = 2
    /\ file = NoFile

\* the 18 bytes of an entry's record, as the entry's fields spell them
RecordBytes(e) ==
    U32(e.CRC) \o U16(e.preloadBytes) \o U16(e.archiveIndex)
        \o U32(e.entryOffset) \o U32(e.entryLength) \o <<255, 255>>

\* the record of entry e stands at offset r of the input, right after e's
\* file name and its zero byte
RecordAt(e, r) ==
    /\ r >= Len(e.fileName) + 1
    /\ r + 18 <= Len(input)
    /\ SubSeq(input, r + 1, r + 18) = RecordBytes(e)
    /\ input[r] = 0
    /\ [i \in 1..Len(e.fileName) |-> input[r - 1 - Len(e.fileName) + i] % 128] = e.fileName

\* C13: in the entry table of a parsed directory an entry has a preload buffer
\* if and only if its preloadBytes > 0, and the buffer is then the preloadBytes
\* bytes that follow the 0xFFFF terminator of the entry's record in the tree.
PreloadFollowsTerminator ==
    outcome = "ok" =>
        \A path \in DOMAIN file.entries :
            LET e == file.entries[path]
            IN  /\ ("preload" \in DOMAIN e) <=> (e.preloadBytes > 0)
                /\ e.preloadBytes > 0 =>
                       /\ Len(e.preload) = e.preloadBytes
                       /\ \E r \in 0..Len(input) :
                              /\ RecordAt(e, r)
                              /\ r + 18 + e.preloadBytes <= Len(input)
                              /\ e.preload = SubSeq(input, r + 19, r + 18 + e.preloadBytes)
                /\ e.preloadBytes = 0 => \E r \in 0..Len(input) : RecordAt(e, r)

\* C13 witness: a parsed directory lists an entry with two preload bytes and
\* an entry with none
PreloadAndBareEntries ==
    /\ outcome = "ok"
    /\ \E path \in DOMAIN file.entries :
           /\ "preload" \in DOMAIN file.entries[path]
           /\ Len(file.entries[path].preload) = 2
    /\ \E path \in DOMAIN file.entries : "preload" \notin DOMAIN file.entries[path]

\* offset of the first byte of the name of file i of the layout
NameStart(i) ==
    Len(HeaderBytes(desc.header)) + Len(TreeBytes(SubSeq(desc.files, 1, i), 1))
        - 3 - Len(FileBytes(desc.files[i]))

\* offset of the first byte after file i's record and preload bytes
FileEnd(i) == NameStart(i) + Len(FileBytes(desc.files[i]))

\* the input is a layout with an acceptable header, cut short somewhere, and
\* the parse does not come to a record with a wrong terminator
CutShort ==
    /\ outcome # "pending"
    /\ desc.header.magic = SIGNATURE
    /\ desc.header.version \in {1, 2}
    /\ desc.header.otherMD5 = 48
    /\ desc.keep < WholeLen(desc.header, desc.files, desc.tail)
    /\ desc.tail = <<>>
    /\ ~(FirstBadTerminator # 0 /\ RecordReached(FirstBadTerminator))

\* the cut falls after the first byte of a file name and before the end of
\* that file's record and preload bytes
CutInsideFile == \E i \in 1..Len(desc.files) : NameStart(i) < desc.keep /\ desc.keep < FileEnd(i)

\* the cut falls inside the preload bytes of a file
CutInsidePreload ==
    \E i \in 1..Len(desc.files) :
        FileEnd(i) - Len(desc.files[i].preload) <= desc.keep /\ desc.keep < FileEnd(i)

\* C16 as stated: when the buffer ends before the tree is complete, fromFile
\* fails with OutOfBounds or InsufficientData and returns no directory.
TruncatedTreeFails ==
    CutShort => (outcome \in {"OutOfBounds", "InsufficientData"} /\ file = NoFile)

\* C16 (as amended): when the buffer ends inside the header, or after the
\* first byte of a file name and before the end of that file's record and
\* preload bytes, fromFile fails (InsufficientData inside the preload bytes,
\* OutOfBounds elsewhere) and returns no directory; when it ends anywhere else
\* in the tree (inside an extension or folder string, or where a string or a
\* level's terminator is expected) fromFile returns a directory.
TruncatedRecordFails ==
    CutShort =>
        IF desc.keep < Len(HeaderBytes(desc.header))
        THEN outcome = "OutOfBounds" /\ file = NoFile
        ELSE IF CutInsidePreload THEN outcome = "InsufficientData" /\ file = NoFile
        ELSE IF CutInsideFile THEN outcome = "OutOfBounds" /\ file = NoFile
        ELSE outcome = "ok" /\ file.loaded

\* C16 witness: a parse has failed on preload bytes cut short
TruncatedPreloadFailed ==
    /\ CutShort /\ CutInsidePreload
    /\ outcome = "InsufficientData" /\ file = NoFile

(***************************************************************************)
(* Properties of the tree's loops (under SpecTree)                         *)
(***************************************************************************)

\* a string read of the tree's loops moves the cursor forward, and one issued
\* at or past the buffer end returns the empty string and leaves its loop
StringReadAdvances ==
    (frame.pc \in {"extension", "folder", "fileName"}) =>
        /\ last'.op = "readString" /\ last'.pre = cursor
        /\ cursor' >= cursor + 1
        /\ cursor >= Len(pdata) =>
               /\ last'.bytes = <<>>
               /\ frame.pc = "extension" => (frame'.pc = "done" /\ outcome' = "ok")
               /\ frame.pc = "folder" => frame'.pc = "extension"
               /\ frame.pc = "fileName" => frame'.pc = "folder"

\* C19: on every input buffer the three nested loops of fromFile end, with a
\* directory or with an error: every string read moves the cursor forward by
\* at least one byte, and once the cursor is at or past the buffer end every
\* string read returns the empty string, which ends the loop of its level.
TreeLoopsTerminate ==
    /\ <>(outcome # "pending")
    /\ [][StringReadAdvances]_<<cursor, frame.pc>>

\* C19 witness: fromFile has returned a directory from a buffer that ended
\* inside the tree, the last string reads having been issued past its end
TreeEndedPastBuffer ==
    /\ frame.pc = "done" /\ outcome = "ok"
    /\ desc.keep < WholeLen(desc.header, desc.files, desc.tail)
    /\ last.op = "readString" /\ last.pre > Len(pdata)
    /\ file.entries # <<>>

(***************************************************************************)
(* Properties of readFile and closeSubArchives (under Spec)                *)
(***************************************************************************)

\* the directory as fromFile returned it
LoadedFile == fromFile(DirPath, DirBytes(ReadLayout)).file

\* the entry a call record asked for
EntryOf(t) == LoadedFile.entries[task[t].path]

Ended(t) == task[t].pc = "done"

\* C1: readFile of an entry stored in the directory file itself, at offset o
\* with length n > 0 inside the residual data, returns the preload bytes
\* followed by residualData[o : o+n].
SelfContainedRoundTrip ==
    \A t \in Tasks :
        (/\ Ended(t)
         /\ task[t].path \in DOMAIN LoadedFile.entries
         /\ EntryOf(t).archiveIndex = 32767
         /\ EntryOf(t).entryLength > 0
         /\ EntryOf(t).entryOffset + EntryOf(t).entryLength <= Len(file.data))
        => LET e == EntryOf(t)
               pre == IF "preload" \in DOMAIN e THEN e.preload ELSE <<>>
           IN  /\ task[t].err = "none"
               /\ Len(task[t].buff) = e.preloadBytes + e.entryLength
               /\ task[t].buff = pre \o SubSeq(file.data, e.entryOffset + 1,
                                               e.entryOffset + e.entryLength)

\* C2: while readFile calls follow one another without overlapping and
\* closeSubArchives has not been called, no archive index is opened twice.
OneOpenPerArchiveIndex ==
    (hist.serial /\ hist.closes = 0) =>
        \A i \in DOMAIN hist.opens : hist.opens[i] <= 1

\* the closeSubArchives call has ended, by returning or by throwing
CloseEnded == closer.pc \in {"returned", "threw"}

\* C3: a closeSubArchives call made with no readFile call in flight from its
\* call to its end returns; when it returns the cache is empty and every
\* descriptor that was in the cache at the call is closed; the cache was
\* already empty when the closes were issued (and stays empty while they run).
CloseAllDrainsCache ==
    /\ (CloseEnded /\ closer.clean) =>
           /\ closer.pc = "returned"
           /\ closer.cacheAtReturn = <<>>
           /\ cacheValues(closer.snapshot) \cap closer.openAtReturn = {}
           /\ closer.atIssue = <<>>
    /\ (closer.pc = "closing" /\ closer.clean) =>
           /\ closer.atIssue = <<>>
           /\ file.fdCache = <<>>

\* the call of slot t went through open and fs.read on an external archive
\* and received every byte it asked for
ReadInFull(t) ==
    /\ Ended(t)
    /\ "bytesRead" \in DOMAIN task[t]
    /\ task[t].bytesRead = EntryOf(t).entryLength

\* C7: readFile(path, true) on an external entry whose bytes were read in
\* full and whose assembled buffer's checksum differs from the stored crc
\* fails with ValidationFailed, and the cache then holds a descriptor for the
\* entry's archive index (no closeSubArchives call having overlapped the read).
ValidationFailureKeepsHandle ==
    \A t \in Tasks :
        (/\ ReadInFull(t)
         /\ task[t].validate
         /\ crc32(task[t].read) # EntryOf(t).CRC)
        => /\ task[t].err = "ValidationFailed"
           /\ ~task[t].drained => EntryOf(t).archiveIndex \in DOMAIN task[t].cacheAfter

\* C7 witness: a validating read has failed on the checksum, having found the
\* cache empty and left its archive's descriptor in it
ValidationFailedOnce ==
    \E t \in Tasks :
        /\ Ended(t) /\ task[t].err = "ValidationFailed"
        /\ task[t].cacheBefore = <<>>
        /\ EntryOf(t).archiveIndex \in DOMAIN task[t].cacheAfter

\* one step of a readFile call whose path, once its backslashes are slashes,
\* is no key of the entry table
MissingPathStep ==
    \A t \in Tasks, p \in AskedPaths, validate \in BOOLEAN :
        (ReadStart(t, p, validate)
         /\ [i \in 1..Len(p) |-> IF p[i] = 92 THEN 47 ELSE p[i]] \notin DOMAIN file.entries)
        => /\ task'[t].pc = "done"
           /\ task'[t].err = "FileNotFound"
           /\ file' = file
           /\ fds' = fds
           /\ hist'.opens = hist.opens

\* C8: a readFile call whose path, once its backslashes are slashes, is no
\* key of the entry table ends at once with FileNotFound; the step opens
\* nothing and changes neither the cache nor the entry table.
MissingPathFails == [][MissingPathStep]_vars

\* C8 witness: a call for a path that is no entry has failed with FileNotFound
\* while a descriptor was cached
MissingPathFailed ==
    \E t \in Tasks :
        /\ Ended(t) /\ task[t].err = "FileNotFound"
        /\ task[t].cacheBefore # <<>>
        /\ task[t].cacheAfter = task[t].cacheBefore

\* C14: a readFile call that fails with an error other than ValidationFailed
\* (FileNotFound, ShortRead, a failed open), no other call running meanwhile,
\* leaves the entry table and the handle cache as they were before the call.
FailedReadLeavesCache ==
    \A t \in Tasks :
        (Ended(t) /\ task[t].alone /\ task[t].err \notin {"none", "ValidationFailed"})
        => /\ task[t].cacheAfter = task[t].cacheBefore
           /\ file.entries = LoadedFile.entries

\* C15: readFile(path, true) returns a buffer only if the checksum of the
\* buffer equals the entry's stored crc, whatever the entry's storage.
ValidatedReadMatchesCrc ==
    \A t \in Tasks :
        (/\ Ended(t)
         /\ task[t].validate
         /\ task[t].path \in DOMAIN LoadedFile.entries
         /\ task[t].err = "none")
        => crc32(task[t].buff) = EntryOf(t).CRC

\* both call slots hold an ended call that opened a descriptor for the same
\* archive index, which had none cached when either call started, and the
\* one closeSubArchives call, issued after both, has ended
RacedAndClosed ==
    /\ Ended(1) /\ Ended(2)
    /\ "fd" \in DOMAIN task[1] /\ "fd" \in DOMAIN task[2]
    /\ EntryOf(1).archiveIndex = EntryOf(2).archiveIndex
    /\ EntryOf(1).archiveIndex \notin DOMAIN task[1].cacheBefore
    /\ EntryOf(2).archiveIndex \notin DOMAIN task[2].cacheBefore
    /\ CloseEnded /\ closer.clean /\ closer.after = hist.reads /\ hist.closes = 1

\* C17: when two readFile calls for the same never-opened archive index have
\* overlapped and each has opened a descriptor and cached it, the descriptors
\* differ and the second cache write has replaced the first's descriptor, so
\* that closeSubArchives finds the second alone in the cache; after both calls
\* have ended and closeSubArchives has ended, the first descriptor is still
\* open.
RacingOpensLeakFirstHandle ==
    RacedAndClosed =>
        \A t, u \in Tasks :
            (task[t].nth < task[u].nth) =>
                /\ task[t].fd # task[u].fd
                /\ EntryOf(u).archiveIndex \in DOMAIN closer.snapshot
                /\ closer.snapshot[EntryOf(u).archiveIndex] = task[u].fd
                /\ task[t].fd \notin cacheValues(closer.snapshot)
                /\ task[t].fd \in closer.openAtReturn
                /\ task[t].fd \in DOMAIN fds

\* C17 witness: two overlapping reads of archive 1 have ended without error,
\* the second to cache its descriptor being the first to have opened one, and
\* closeSubArchives has ended with the first cached descriptor still open
RacedReadsLeaked ==
    /\ RacedAndClosed
    /\ task[1].err = "none" /\ task[2].err = "none"
    /\ \E t, u \in Tasks :
           /\ task[t].nth < task[u].nth
           /\ task[u].fd < task[t].fd
           /\ task[t].fd \in closer.openAtReturn

\* C18: after readFile calls that did not overlap, followed by a
\* closeSubArchives call that has ended, no descriptor opened by those calls
\* is still open.
SerialReadsThenCloseLeaveNothingOpen ==
    (CloseEnded /\ hist.serial) => closer.openAtReturn = {}

====
